---- MODULE Spec2Model ----
(***************************************************************************)
(* Model of lib/cloud-watch-event-listener.js: the CloudWatch event        *)
(* listener of ec2-manager.  One message is handled at a time (the queue   *)
(* listener is created with sequential: true); __handler is modelled one    *)
(* awaited I/O call per action, and every awaited call may fail.           *)
(*                                                                         *)
(* Timestamps are integers; 0 stands for a null lastevent column.  Strings *)
(* that the code takes apart (the key name) are sequences of characters.   *)
(* An optional value (dbResponse, a row of the instances table, the        *)
(* described instance) is a sequence of length 0 or 1.                     *)
(***************************************************************************)
EXTENDS Integers, Sequences, FiniteSets, TLC

\* Bounds of the model.
MaxTime == 3
MaxMsgs == 3
MaxReceive == 2

Instances == {"i-1"}
LiveStates == {"pending", "running"}
States == {"pending", "running", "terminated"}
Times == 1..MaxTime
NullTime == 0

\* The message body after JSON.parse: detail.instance-id, detail.state, time.
Notifications == [id : Instances, state : States, time : Times]

\* keyPrefix as passed to the constructor, and this.provisionerId.
keyPrefix == <<"p", ":">>
thisProvisionerId == SubSeq(keyPrefix, 1, Len(keyPrefix) - 1)

\* Key names the described instances carry.
KeyNames ==
  { <<"p", ":", "w">>, <<"o", ":", "w">>, <<"p">>, <<"p", ":">>,
    <<"p", ":", "w", ":", "x">> }
TagSets == SUBSET {"Owner", "Name"}

NotFound == "InvalidInstanceID.NotFound"
DescribeErrors == {NotFound, "RequestLimitExceeded"}

CounterNames ==
  { "global.cwe-out-of-order.count", "region.cwe-out-of-order.count",
    "global.api-lag", "region.api-lag", "handled-messages", "handler-errors" }

VARIABLES
  store,        \* the instances table: id -> zero or one row
  events,       \* the rows this call added to the cloudwatch event log
  ec2Key,       \* id -> KeyName of the instance at the provider
  pc,           \* position of the handler
  msg,          \* the message being handled (zero or one)
  dbResponse,   \* the row read by listInstances (zero or one)
  instance,     \* the instance returned by describeInstances (zero or one)
  txn,          \* state of the transaction: none, open, committed, rolledback
  txnWrite,     \* the write made inside the open transaction (zero or one)
  caught,       \* the error held by the catch block at lines 182-186
  result,       \* how __handler ended: none, returned, raised
  err,          \* the error __handler raised
  counts,       \* monitor.count totals by name
  delays,       \* monitor.measure values of this call (cwe-out-of-order.delay)
  reports,      \* errors passed to monitor.reportError during this call
  calls,        \* the awaited calls of this call, in order, with their outcome
  pre,          \* store, counts and applied when this call started
  started,      \* number of messages received so far
  delivered,    \* notifications handled, while clean
  nondropped,   \* those of them that did not take the out-of-order path
  applied,      \* those of them that created, updated or deleted a row
  clean,        \* no awaited call has failed so far
  queue,        \* primary queue: waiting messages with their receive count
  inflight,     \* the queue message the handler is working on (zero or one)
  deadq,        \* dead-letter queue: waiting messages
  alerts,       \* what DeadCloudWatchEventListener passed to reportError
  acked,        \* notifications deleted from the queue after a handler returned
  execs,        \* handler executions side by side: position, message, row read
  rowLock,      \* per instance, the execution holding the lock of its row
  cstarted      \* number of executions started side by side

vars ==
  << store, events, ec2Key, pc, msg, dbResponse, instance, txn, txnWrite, caught,
     result, err, counts, delays, reports, calls, pre, started, delivered,
     nondropped, applied, clean, queue, inflight, deadq, alerts, acked,
     execs, rowLock, cstarted >>

qvars == << queue, inflight, deadq, alerts, acked >>
cvars == << execs, rowLock, cstarted >>
Procs == {"a", "b"}
IdleExec == [pc |-> "idle", msg |-> <<>>, dbResponse |-> <<>>, instance |-> <<>>]

----------------------------------------------------------------------------
(* Pure helpers *)

\* String.prototype.split on a one-character separator.
RECURSIVE Split(_, _)
Split(s, sep) ==
  IF \A k \in 1..Len(s) : s[k] # sep
  THEN <<s>>
  ELSE LET k == CHOOSE j \in 1..Len(s) :
                  s[j] = sep /\ \A h \in 1..(j - 1) : s[h] # sep
       IN  <<SubSeq(s, 1, k - 1)>> \o Split(SubSeq(s, k + 1, Len(s)), sep)

\* let [provisionerId, workerType] = instance.KeyName.split(':')
ProvisionerIdOf(inst) == Split(inst.KeyName, ":")[1]
\* workerType is undefined when the split has one part; both undefined and ''
\* are falsy, and <<>> stands for either.
WorkerTypeOf(inst) ==
  LET parts == Split(inst.KeyName, ":")
  IN  IF Len(parts) >= 2 THEN parts[2] ELSE <<>>
Truthy(str) == str # <<>>

missingTags(obj) == ~(\E tag \in obj.Tags : tag = "Owner")

\* if (workerType && missingTags(instance))
NeedsTag(inst) == Truthy(WorkerTypeOf(inst)) /\ missingTags(inst)

\* if (workerType && provisionerId === this.provisionerId)
IsOwned(inst) ==
  Truthy(WorkerTypeOf(inst)) /\ ProvisionerIdOf(inst) = thisProvisionerId

\* the comparison of the two times the wrong way round
IsNewer_Reversed(row, generated) ==
  row.lastevent # NullTime /\ row.lastevent > generated

\* if (dbResponse.lastevent && dbResponse.lastevent < generated)
IsNewer(row, generated) ==
  row.lastevent # NullTime /\ row.lastevent < generated

\* the branch condition without its comparison: every state counts as live
IsLive_AnyState(state) == state \in States

\* if (state === 'pending' || state === 'running')
IsLive(state) == state = "pending" \/ state = "running"

\* the comparison of the error code inverted
ReportsDescribeError_Inverted(code) == code = NotFound

\* if (err.code !== 'InvalidInstanceID.NotFound') reportError, else count api-lag
ReportsDescribeError(code) == code # NotFound

\* opts built without lastevent: generated
UpsertOpts_NoLastEvent(n, inst) ==
  [ id |-> n.id, state |-> n.state, lastevent |-> NullTime,
    workertype |-> WorkerTypeOf(inst) ]

\* opts passed to upsertInstance
UpsertOpts(n, inst) ==
  [ id |-> n.id, state |-> n.state, lastevent |-> n.time,
    workertype |-> WorkerTypeOf(inst) ]

\* The state store (lib/state.js is not part of the sources): the row after
\* each write, as the interface describes it.
UpdateInstanceStateRow(row, state, lastevent) ==
  <<[row[1] EXCEPT !.state = state, !.lastevent = lastevent]>>
UpsertInstanceRow(row, opts) == <<opts>>
RemoveInstanceRow(row) == <<>>
\* commit closes an open transaction; on one already closed it changes nothing
CommitTxn(t) == IF t = "open" THEN "committed" ELSE t
RollbackTxn(t) == IF t = "open" THEN "rolledback" ELSE t

Rows ==
  [ id : Instances, state : LiveStates, lastevent : Times \cup {NullTime},
    workertype : {WorkerTypeOf([KeyName |-> k]) : k \in KeyNames} ]

----------------------------------------------------------------------------
(* State *)

Bump(c, names) == [k \in CounterNames |-> IF k \in names THEN c[k] + 1 ELSE c[k]]

NoPre ==
  [ store |-> [i \in Instances |-> <<>>], counts |-> [k \in CounterNames |-> 0],
    applied |-> {} ]

\* Everything but the instances table, as the constructor and init leave it.
InitHandler ==
  /\ events = {}
  /\ ec2Key \in [Instances -> KeyNames]
  /\ pc = "idle"
  /\ msg = <<>>
  /\ dbResponse = <<>>
  /\ instance = <<>>
  /\ txn = "none"
  /\ txnWrite = <<>>
  /\ caught = <<>>
  /\ result = "none"
  /\ err = ""
  /\ counts = [k \in CounterNames |-> 0]
  /\ delays = <<>>
  /\ reports = <<>>
  /\ calls = <<>>
  /\ pre = NoPre
  /\ started = 0
  /\ delivered = {}
  /\ nondropped = {}
  /\ applied = {}
  /\ clean = TRUE
  /\ inflight = <<>>
  /\ deadq = {}
  /\ alerts = <<>>
  /\ acked = {}
  /\ execs = [p \in Procs |-> IdleExec]
  /\ rowLock = [i \in Instances |-> <<>>]
  /\ cstarted = 0

Init ==
  /\ store = [i \in Instances |-> <<>>]
  /\ queue = {}
  /\ InitHandler

\* A table that already holds, for each instance, a row whose lastevent column
\* is null, written by another writer of the instances table.
InitNullLastEvent ==
  /\ store \in [Instances -> {<<r>> : r \in {x \in Rows : x.lastevent = NullTime}}]
  /\ \A i \in Instances : store[i][1].id = i
  /\ queue = {}
  /\ InitHandler

\* One awaited call and its outcome.
Call(op, ok) ==
  /\ calls' = Append(calls, [op |-> op, ok |-> ok])
  /\ clean' = (clean /\ ok)

\* __handler returns (res = "returned") or throws e (res = "raised").  The
\* history of handled notifications is kept only while no awaited call has
\* failed since the start; after a failure it is empty for good.
Finish(res, e, dropped) ==
  /\ pc' = "done"
  /\ result' = res
  /\ err' = e
  /\ delivered' = IF clean' THEN delivered \cup {msg[1]} ELSE {}
  /\ nondropped' =
       IF ~clean' THEN {}
       ELSE IF ~dropped THEN nondropped \cup {msg[1]} ELSE nondropped
  /\ applied' =
       IF ~clean' THEN {}
       ELSE IF store'[msg[1].id] # store[msg[1].id] THEN applied \cup {msg[1]}
       ELSE applied
  /\ UNCHANGED <<qvars, cvars>>

NotDone == UNCHANGED <<result, err, delivered, nondropped, applied, qvars, cvars>>

----------------------------------------------------------------------------
(* The message handler of the queue listener and __handler, call by call *)

\* handler: async msg => { ... await this.__handler(msg) }, up to the parse
Receive(n) ==
  /\ pc = "idle"
  /\ started < MaxMsgs
  /\ started' = started + 1
  /\ msg' = <<n>>
  /\ pre' = [store |-> store, counts |-> counts, applied |-> applied]
  /\ reports' = <<>>
  /\ pc' = "logCloudWatchEvent"
  /\ UNCHANGED <<store, events, ec2Key, dbResponse, instance, txn, txnWrite, caught,
                 counts, delays, calls, clean>>
  /\ NotDone

\* the audit write without its try/catch: a rejection leaves __handler
LogCloudWatchEvent_Fatal ==
  /\ pc = "logCloudWatchEvent"
  /\ \E ok \in BOOLEAN :
       /\ Call("logCloudWatchEvent", ok)
       /\ UNCHANGED <<store, reports>>
       /\ IF ok
          THEN events' = events \cup {msg[1]} /\ pc' = "beginTransaction" /\ NotDone
          ELSE UNCHANGED events /\ Finish("raised", "logCloudWatchEvent", FALSE)
  /\ UNCHANGED <<ec2Key, msg, dbResponse, instance, txn, txnWrite, caught,
                 counts, delays, pre, started>>

\* await this.state.logCloudWatchEvent(...) in its try/catch
LogCloudWatchEvent ==
  /\ pc = "logCloudWatchEvent"
  /\ \E ok \in BOOLEAN :
       /\ Call("logCloudWatchEvent", ok)
       /\ IF ok
          THEN events' = events \cup {msg[1]} /\ UNCHANGED reports
          ELSE reports' = Append(reports, "logCloudWatchEvent") /\ UNCHANGED events
  /\ pc' = "beginTransaction"
  /\ UNCHANGED <<store, ec2Key, msg, dbResponse, instance, txn, txnWrite, caught,
                 counts, delays, pre, started>>
  /\ NotDone

\* let transaction = await this.state.beginTransaction()
BeginTransaction ==
  /\ pc = "beginTransaction"
  /\ \E ok \in BOOLEAN :
       /\ Call("beginTransaction", ok)
       /\ UNCHANGED store
       /\ IF ok
          THEN txn' = "open" /\ pc' = "listInstances" /\ NotDone
          ELSE UNCHANGED txn /\ Finish("raised", "beginTransaction", FALSE)
  /\ UNCHANGED <<events, ec2Key, msg, dbResponse, instance, txnWrite, caught,
                 counts, delays, reports, pre, started>>

\* the try block around listInstances, and the branch taken on its result
ListInstances ==
  /\ pc = "listInstances"
  /\ \E ok \in BOOLEAN :
       /\ Call("listInstances", ok)
       /\ IF ok
          THEN LET x == store[msg[1].id]
               IN  /\ dbResponse' = x
                   /\ pc' = IF x = <<>> THEN "earlyCommit"
                            ELSE IF IsNewer(x[1], msg[1].time) THEN "write"
                            ELSE "staleCommit"
          ELSE /\ UNCHANGED dbResponse
               /\ pc' = "lookupRollback"
  /\ UNCHANGED <<store, events, ec2Key, msg, instance, txn, txnWrite, caught,
                 counts, delays, reports, pre, started>>
  /\ NotDone

\* catch (err) { await this.state.rollbackTransaction(transaction); log.error }
LookupRollback ==
  /\ pc = "lookupRollback"
  /\ \E ok \in BOOLEAN :
       /\ Call("rollbackTransaction", ok)
       /\ UNCHANGED store
       /\ IF ok
          THEN txn' = RollbackTxn(txn) /\ pc' = "earlyCommit" /\ NotDone
          ELSE UNCHANGED txn /\ Finish("raised", "rollbackTransaction", FALSE)
  /\ UNCHANGED <<events, ec2Key, msg, dbResponse, instance, txnWrite, caught,
                 counts, delays, reports, pre, started>>

\* the handler without the commit of the transaction that found no row
EarlyCommit_Skipped ==
  /\ pc = "earlyCommit"
  /\ dbResponse = <<>>
  /\ pc' = IF IsLive(msg[1].state) THEN "describeInstances" ELSE "removeInstance"
  /\ NotDone
  /\ UNCHANGED <<store, events, ec2Key, msg, dbResponse, instance, txn, txnWrite,
                 caught, counts, delays, reports, calls, pre, started, clean>>

\* if (!dbResponse) { await this.state.commitTransaction(transaction) }
EarlyCommit ==
  /\ pc = "earlyCommit"
  /\ dbResponse = <<>>
  /\ \E ok \in BOOLEAN :
       /\ Call("commitTransaction", ok)
       /\ UNCHANGED store
       /\ IF ok
          THEN /\ txn' = CommitTxn(txn)
               /\ pc' = IF IsLive(msg[1].state) THEN "describeInstances"
                        ELSE "removeInstance"
               /\ NotDone
          ELSE UNCHANGED txn /\ Finish("raised", "commitTransaction", FALSE)
  /\ UNCHANGED <<events, ec2Key, msg, dbResponse, instance, txnWrite, caught,
                 counts, delays, reports, pre, started>>

\* updateInstanceState or removeInstance inside the transaction
WriteInstance ==
  /\ pc = "write"
  /\ LET op == IF IsLive(msg[1].state) THEN "updateInstanceState" ELSE "removeInstance"
         row == store[msg[1].id]
     IN  \E ok \in BOOLEAN :
           /\ Call(op, ok)
           /\ IF ok
              THEN /\ txnWrite' =
                        IF IsLive(msg[1].state)
                        THEN <<UpdateInstanceStateRow(row, msg[1].state, msg[1].time)>>
                        ELSE <<RemoveInstanceRow(row)>>
                   /\ pc' = "writeCommit"
                   /\ UNCHANGED caught
              ELSE /\ caught' = <<op>>
                   /\ pc' = "writeRollback"
                   /\ UNCHANGED txnWrite
  /\ UNCHANGED <<store, events, ec2Key, msg, dbResponse, instance, txn,
                 counts, delays, reports, pre, started>>
  /\ NotDone

\* await this.state.commitTransaction(transaction) after the write
WriteCommit ==
  /\ pc = "writeCommit"
  /\ \E ok \in BOOLEAN :
       /\ Call("commitTransaction", ok)
       /\ IF ok
          THEN /\ store' = [store EXCEPT ![msg[1].id] = txnWrite[1]]
               /\ txn' = CommitTxn(txn)
               /\ txnWrite' = <<>>
               /\ UNCHANGED caught
               /\ Finish("returned", "", FALSE)
          ELSE /\ caught' = <<"commitTransaction">>
               /\ pc' = "writeRollback"
               /\ UNCHANGED <<store, txn, txnWrite>>
               /\ NotDone
  /\ UNCHANGED <<events, ec2Key, msg, dbResponse, instance,
                 counts, delays, reports, pre, started>>

\* the catch block without its rollback: catch (err) { log.error; throw err }
WriteRollback_NoRollback ==
  /\ pc = "writeRollback"
  /\ UNCHANGED <<store, txn, txnWrite, calls, clean>>
  /\ Finish("raised", caught[1], FALSE)
  /\ caught' = <<>>
  /\ UNCHANGED <<events, ec2Key, msg, dbResponse, instance,
                 counts, delays, reports, pre, started>>

\* catch (err) { await rollbackTransaction; log.error; throw err }
WriteRollback ==
  /\ pc = "writeRollback"
  /\ \E ok \in BOOLEAN :
       /\ Call("rollbackTransaction", ok)
       /\ UNCHANGED store
       /\ IF ok
          THEN /\ txn' = RollbackTxn(txn)
               /\ txnWrite' = <<>>
               /\ Finish("raised", caught[1], FALSE)
          ELSE /\ UNCHANGED <<txn, txnWrite>>
               /\ Finish("raised", "rollbackTransaction", FALSE)
  /\ caught' = <<>>
  /\ UNCHANGED <<events, ec2Key, msg, dbResponse, instance,
                 counts, delays, reports, pre, started>>

\* the else branch: commit, count and measure the out-of-order delivery
StaleCommit ==
  /\ pc = "staleCommit"
  /\ \E ok \in BOOLEAN :
       /\ Call("commitTransaction", ok)
       /\ UNCHANGED store
       /\ IF ok
          THEN LET delay == dbResponse[1].lastevent - msg[1].time
               IN  /\ txn' = CommitTxn(txn)
                   /\ counts' = Bump(counts, { "global.cwe-out-of-order.count",
                                               "region.cwe-out-of-order.count" })
                   /\ delays' = delays \o
                        << [name |-> "global.cwe-out-of-order.delay", value |-> delay],
                           [name |-> "region.cwe-out-of-order.delay", value |-> delay] >>
                   /\ Finish("returned", "", TRUE)
          ELSE /\ UNCHANGED <<txn, counts, delays>>
               /\ Finish("raised", "commitTransaction", FALSE)
  /\ UNCHANGED <<events, ec2Key, msg, dbResponse, instance, txnWrite, caught,
                 reports, pre, started>>

\* what follows the tagging block: upsert when the instance is ours, else return
AfterTagging(inst) ==
  IF IsOwned(inst)
  THEN pc' = "upsertInstance" /\ NotDone
  ELSE Finish("returned", "", FALSE)

\* apiResponse = await this.runaws(this.ec2, 'describeInstances', ...)
DescribeInstances ==
  /\ pc = "describeInstances"
  /\ \E outcome \in {"ok"} \cup DescribeErrors, tags \in TagSets :
       /\ Call("describeInstances", outcome = "ok")
       /\ UNCHANGED store
       /\ IF outcome = "ok"
          THEN LET inst == [KeyName |-> ec2Key[msg[1].id], Tags |-> tags]
               IN  /\ instance' = <<inst>>
                   /\ UNCHANGED <<reports, counts>>
                   /\ IF NeedsTag(inst)
                      THEN pc' = "tagResources" /\ NotDone
                      ELSE AfterTagging(inst)
          ELSE /\ IF ReportsDescribeError(outcome)
                  THEN reports' = Append(reports, outcome) /\ UNCHANGED counts
                  ELSE /\ counts' = Bump(counts, {"global.api-lag", "region.api-lag"})
                       /\ UNCHANGED reports
               /\ UNCHANGED instance
               /\ Finish("raised", outcome, FALSE)
  /\ UNCHANGED <<events, ec2Key, msg, dbResponse, txn, txnWrite, caught,
                 delays, pre, started>>

\* await this.tagger.tagResources(...)
TagResources ==
  /\ pc = "tagResources"
  /\ \E ok \in BOOLEAN :
       /\ Call("tagResources", ok)
       /\ UNCHANGED store
       /\ IF ok
          THEN AfterTagging(instance[1])
          ELSE Finish("raised", "tagResources", FALSE)
  /\ UNCHANGED <<events, ec2Key, msg, dbResponse, instance, txn, txnWrite, caught,
                 counts, delays, reports, pre, started>>

\* await this.state.upsertInstance(opts)
UpsertInstance ==
  /\ pc = "upsertInstance"
  /\ \E ok \in BOOLEAN :
       /\ Call("upsertInstance", ok)
       /\ IF ok
          THEN /\ store' = [store EXCEPT ![msg[1].id] =
                              UpsertInstanceRow(@, UpsertOpts(msg[1], instance[1]))]
               /\ Finish("returned", "", FALSE)
          ELSE /\ UNCHANGED store
               /\ Finish("raised", "upsertInstance", FALSE)
  /\ UNCHANGED <<events, ec2Key, msg, dbResponse, instance, txn, txnWrite, caught,
                 counts, delays, reports, pre, started>>

\* await this.state.removeInstance({region, id}) outside any transaction
RemoveInstance ==
  /\ pc = "removeInstance"
  /\ \E ok \in BOOLEAN :
       /\ Call("removeInstance", ok)
       /\ IF ok
          THEN /\ store' = [store EXCEPT ![msg[1].id] = RemoveInstanceRow(@)]
               /\ Finish("returned", "", FALSE)
          ELSE /\ UNCHANGED store
               /\ Finish("raised", "removeInstance", FALSE)
  /\ UNCHANGED <<events, ec2Key, msg, dbResponse, instance, txn, txnWrite, caught,
                 counts, delays, reports, pre, started>>

\* The variables of one call go back to their initial values.
ResetCall ==
  /\ pc' = "idle"
  /\ events' = {}
  /\ msg' = <<>>
  /\ dbResponse' = <<>>
  /\ instance' = <<>>
  /\ txn' = "none"
  /\ txnWrite' = <<>>
  /\ result' = "none"
  /\ err' = ""
  /\ delays' = <<>>
  /\ calls' = <<>>
  /\ pre' = NoPre

\* What the queue transport does with the message in flight once its handler
\* has returned (ok) or raised: it deletes the message, makes it visible
\* again, or, the receive count having reached the limit, moves it to the
\* dead-letter queue.
Settle(ok) ==
  /\ inflight' = <<>>
  /\ UNCHANGED <<alerts, cvars>>
  /\ IF inflight = <<>>
     THEN UNCHANGED <<queue, deadq, acked>>
     ELSE IF ok
     THEN acked' = acked \cup {inflight[1].n} /\ UNCHANGED <<queue, deadq>>
     ELSE IF inflight[1].rc < MaxReceive
     THEN queue' = queue \cup {inflight[1]} /\ UNCHANGED <<deadq, acked>>
     ELSE deadq' = deadq \cup {inflight[1].n} /\ UNCHANGED <<queue, acked>>

\* after __handler returned: doodad.measure(); count('handled-messages', 1)
HandlerReturned ==
  /\ pc = "done"
  /\ result = "returned"
  /\ counts' = Bump(counts, {"handled-messages"})
  /\ ResetCall
  /\ Settle(TRUE)
  /\ UNCHANGED <<store, ec2Key, caught, reports, started, delivered,
                 nondropped, applied, clean>>

\* this.sqsQueue.on('error', ...) after __handler threw
HandlerError ==
  /\ pc = "done"
  /\ result = "raised"
  /\ counts' = Bump(counts, {"handler-errors"})
  /\ reports' = Append(reports, err)
  /\ ResetCall
  /\ Settle(FALSE)
  /\ UNCHANGED <<store, ec2Key, caught, started, delivered,
                 nondropped, applied, clean>>

Next ==
  \/ \E n \in Notifications : Receive(n)
  \/ LogCloudWatchEvent
  \/ BeginTransaction
  \/ ListInstances
  \/ LookupRollback
  \/ EarlyCommit
  \/ WriteInstance
  \/ WriteCommit
  \/ WriteRollback
  \/ StaleCommit
  \/ DescribeInstances
  \/ TagResources
  \/ UpsertInstance
  \/ RemoveInstance
  \/ HandlerReturned
  \/ HandlerError

Spec == Init /\ [][Next]_vars

\* The same handler started on rows without a lastevent.
SpecNullLastEvent == InitNullLastEvent /\ [][Next]_vars

----------------------------------------------------------------------------
(* The handler behind its queue, and the dead-letter listener *)

\* The primary queue holds one or two notifications, none received yet.
InitQueue ==
  /\ store = [i \in Instances |-> <<>>]
  /\ queue \in {{[n |-> a, rc |-> 0], [n |-> b, rc |-> 0]} : a, b \in Notifications}
  /\ InitHandler

\* The queue listener hands a visible message to the handler (sequential: one
\* at a time) and the receive count of the message goes up by one.
QueueReceive ==
  /\ pc = "idle"
  /\ \E m \in queue :
       /\ queue' = queue \ {m}
       /\ inflight' = <<[n |-> m.n, rc |-> m.rc + 1]>>
       /\ msg' = <<m.n>>
  /\ started' = started + 1
  /\ pre' = [store |-> store, counts |-> counts, applied |-> applied]
  /\ reports' = <<>>
  /\ pc' = "logCloudWatchEvent"
  /\ UNCHANGED <<store, events, ec2Key, dbResponse, instance, txn, txnWrite, caught,
                 counts, delays, calls, clean, result, err, delivered, nondropped,
                 applied, deadq, alerts, acked, cvars>>

\* the severity DeadCloudWatchEventListener.__handler passes to reportError
DeadAlertLevel_Default == "error"
DeadAlertLevel == "info"

\* DeadCloudWatchEventListener.__handler: builds the text around the raw
\* message and reports it; it awaits nothing and touches no state.
DeadHandler ==
  /\ \E n \in deadq :
       /\ deadq' = deadq \ {n}
       /\ alerts' = Append(alerts, [level |-> DeadAlertLevel, n |-> n])
  /\ UNCHANGED <<store, events, ec2Key, pc, msg, dbResponse, instance, txn, txnWrite,
                 caught, result, err, counts, delays, reports, calls, pre, started,
                 delivered, nondropped, applied, clean, queue, inflight, acked, cvars>>

NextQueue ==
  \/ QueueReceive
  \/ LogCloudWatchEvent
  \/ BeginTransaction
  \/ ListInstances
  \/ LookupRollback
  \/ EarlyCommit
  \/ WriteInstance
  \/ WriteCommit
  \/ WriteRollback
  \/ StaleCommit
  \/ DescribeInstances
  \/ TagResources
  \/ UpsertInstance
  \/ RemoveInstance
  \/ HandlerReturned
  \/ HandlerError
  \/ DeadHandler

\* Every awaited call settles and the listeners keep polling: a step that
\* can be taken is taken.
SpecQueue == InitQueue /\ [][NextQueue]_vars /\ WF_vars(NextQueue)

TypeOK ==
  /\ \A i \in Instances : store[i] = <<>> \/ (Len(store[i]) = 1 /\ store[i][1] \in Rows)
  /\ txn \in {"none", "open", "committed", "rolledback"}
  /\ result \in {"none", "returned", "raised"}
  /\ Len(msg) <= 1 /\ Len(dbResponse) <= 1 /\ Len(instance) <= 1

----------------------------------------------------------------------------
(* Vocabulary of the properties *)

Done == pc = "done"
CallsOf(op) == {k \in DOMAIN calls : calls[k].op = op}
Called(op) == CallsOf(op) # {}
Failed(op) == \E k \in CallsOf(op) : ~calls[k].ok
Succeeded(op) == \E k \in CallsOf(op) : calls[k].ok
Failures == {k \in DOMAIN calls : ~calls[k].ok}
Terminal(state) == state \notin LiveStates
OutOfOrderCounters == {"global.cwe-out-of-order.count", "region.cwe-out-of-order.count"}
ApiLagCounters == {"global.api-lag", "region.api-lag"}
CountedSince(names, k) == \A c \in names : counts[c] = pre.counts[c] + k
\* the key name, read without the split: the part before the first separator
\* and whether a separator occurs at all
HasSeparator(key) == \E j \in 1..Len(key) : key[j] = ":"
PrefixOf(key) ==
  IF HasSeparator(key)
  THEN SubSeq(key, 1, (CHOOSE j \in 1..Len(key) :
                         key[j] = ":" /\ \A h \in 1..(j - 1) : key[h] # ":") - 1)
  ELSE key

\* The row handle leaves when every awaited call succeeds.
HandleOk(row, n, key) ==
  IF row # <<>>
  THEN IF IsNewer(row[1], n.time)
       THEN IF IsLive(n.state)
            THEN UpdateInstanceStateRow(row, n.state, n.time)
            ELSE RemoveInstanceRow(row)
       ELSE row
  ELSE IF IsLive(n.state)
       THEN IF IsOwned([KeyName |-> key])
            THEN UpsertInstanceRow(row, UpsertOpts(n, [KeyName |-> key]))
            ELSE row
       ELSE RemoveInstanceRow(row)

\* The notifications of S handled one after the other in generatedAt order.
RECURSIVE InOrder(_, _, _)
InOrder(row, S, key) ==
  IF S = {} THEN row
  ELSE LET n == CHOOSE m \in S : \A o \in S : m.time <= o.time
       IN  InOrder(HandleOk(row, n, key), S \ {n}, key)

DistinctTimes(S) == \A a, b \in S : a.time = b.time => a = b
Latest(S) == {m \in S : \A o \in S : o.time <= m.time}

\* The step-by-step handler and its summary agree when nothing fails.
HandleOkAgrees ==
  (Done /\ Failures = {}) =>
    /\ result = "returned"
    /\ store[msg[1].id] = HandleOk(pre.store[msg[1].id], msg[1], ec2Key[msg[1].id])

----------------------------------------------------------------------------
(* Properties *)

\* C1: a call whose notification has generatedAt <= the lastevent of the row
\* stored when the call started never changes or deletes that row, on any path.
C1_Monotonicity ==
  \A i \in Instances :
    (msg # <<>> /\ msg[1].id = i /\ pre.store[i] # <<>>
       /\ msg[1].time <= pre.store[i][1].lastevent)
    => store[i] = pre.store[i]

\* C2: with every awaited call succeeding, the rows left by any delivery
\* order of a set of notifications are those left by delivery in generatedAt
\* order.
C2_OrderIndependence ==
  (pc = "idle" /\ clean /\ DistinctTimes(delivered)) =>
    \A i \in Instances :
      store[i] = InOrder(<<>>, {n \in delivered : n.id = i}, ec2Key[i])

\* C3: after any deliveries, the row carries the generatedAt and the state of
\* the non-dropped notification with the greatest generatedAt (no row when that
\* state is not pending or running).
C3_FinalValue ==
  \A i \in Instances :
    LET S == {n \in nondropped : n.id = i}
    IN  (pc = "idle" /\ clean /\ S # {} /\ IsOwned([KeyName |-> ec2Key[i]])) =>
          \E m \in Latest(S) :
            IF Terminal(m.state)
            THEN store[i] = <<>>
            ELSE /\ store[i] # <<>>
                 /\ store[i][1].lastevent = m.time
                 /\ store[i][1].state = m.state

\* C4: handling again a notification that was applied, or one for the same
\* instance that is not newer than an applied one, changes no row, counts one
\* out-of-order delivery and returns.
C4_Idempotence ==
  (Done /\ clean
     /\ \E a \in pre.applied : a.id = msg[1].id /\ msg[1].time <= a.time)
  => /\ store = pre.store
     /\ CountedSince(OutOfOrderCounters, 1)
     /\ result = "returned"

\* C5: when handle ends, with at most one awaited call having failed, the
\* transaction it began is committed or rolled back.
C5_LockScoping ==
  (Done /\ Succeeded("beginTransaction") /\ Cardinality(Failures) <= 1)
  => txn \in {"committed", "rolledback"}

\* C6: on every path that begins a transaction, commitTransaction and
\* rollbackTransaction are called exactly once between them.
C6_ExactlyOneClose ==
  (Done /\ Succeeded("beginTransaction"))
  => Cardinality(CallsOf("commitTransaction") \cup CallsOf("rollbackTransaction")) = 1

\* C7 as stated: with no row and a state other than pending or running, handle
\* calls neither describeInstances nor tagResources, leaves no row, and returns.
C7_Original ==
  (Done /\ pre.store[msg[1].id] = <<>> /\ Terminal(msg[1].state))
  => /\ ~Called("describeInstances")
     /\ ~Called("tagResources")
     /\ ~Called("upsertInstance")
     /\ store[msg[1].id] = <<>>
     /\ result = "returned"

StoreCloseOps ==
  {"beginTransaction", "rollbackTransaction", "commitTransaction", "removeInstance"}

\* C7 amended: with no row and a state other than pending or running, handle
\* calls neither describeInstances nor tagResources and leaves no row; it
\* returns unless beginTransaction, rollbackTransaction, commitTransaction or
\* removeInstance fails, and then it raises the error of that call.
C7_TerminalCleanup ==
  (Done /\ pre.store[msg[1].id] = <<>> /\ Terminal(msg[1].state))
  => /\ ~Called("describeInstances")
     /\ ~Called("tagResources")
     /\ ~Called("upsertInstance")
     /\ store = pre.store
     /\ store[msg[1].id] = <<>>
     /\ (result = "returned") = (\A op \in StoreCloseOps : ~Failed(op))
     /\ result = "raised" =>
          /\ err \in StoreCloseOps
          /\ calls[Len(calls)] = [op |-> err, ok |-> FALSE]

C7_Witness ==
  /\ Done
  /\ pre.store[msg[1].id] = <<>>
  /\ Terminal(msg[1].state)
  /\ Succeeded("removeInstance")
  /\ result = "returned"
  /\ started > 1

\* C8: after a successful describeInstances, an instance whose key name has no
\* separator or another provisioner id gets no row, and handle returns.
C8_OwnershipFilter ==
  (Done /\ instance # <<>>
     /\ (~HasSeparator(instance[1].KeyName)
           \/ PrefixOf(instance[1].KeyName) # thisProvisionerId))
  => /\ ~Called("upsertInstance")
     /\ store = pre.store
     /\ result = "returned"

\* C9: when describeInstances fails, handle raises that error and writes no
\* row; the not-found error bumps the api-lag counters and is not reported, any
\* other error is reported and bumps no api-lag counter.
C9_ProviderLookupFailure ==
  (Done /\ Failed("describeInstances"))
  => /\ result = "raised"
     /\ err \in DescribeErrors
     /\ store = pre.store
     /\ ~Called("upsertInstance")
     /\ err = NotFound =>
          /\ CountedSince(ApiLagCounters, 1)
          /\ \A k \in DOMAIN reports : reports[k] # err
     /\ err # NotFound =>
          /\ CountedSince(ApiLagCounters, 0)
          /\ Cardinality({k \in DOMAIN reports : reports[k] = err}) = 1

C9_Witness ==
  /\ Done
  /\ Failed("describeInstances")
  /\ err # NotFound
  /\ counts["global.api-lag"] = 1
  /\ pre.counts["global.api-lag"] = 1

\* C10: with a row whose lastevent is T2 and a notification generated at
\* T1 <= T2, handle commits without writing, leaves the row, counts one
\* out-of-order delivery, measures the delay T2 - T1 and returns; stated for
\* the calls in which nothing but the lookup may fail.
C10_StaleNotification ==
  (Done /\ pre.store[msg[1].id] # <<>>
     /\ msg[1].time <= pre.store[msg[1].id][1].lastevent
     /\ \A k \in Failures : calls[k].op = "listInstances")
  => /\ store = pre.store
     /\ ~Called("updateInstanceState") /\ ~Called("removeInstance")
     /\ ~Called("upsertInstance")
     /\ Cardinality(CallsOf("commitTransaction")) = 1
     /\ CountedSince(OutOfOrderCounters, 1)
     /\ delays # <<>>
     /\ \A k \in DOMAIN delays :
          /\ delays[k].value = pre.store[msg[1].id][1].lastevent - msg[1].time
          /\ delays[k].value >= 0
     /\ result = "returned"

\* C11: a notification newer than the row's lastevent, with every awaited call
\* succeeding: pending or running rewrites state and lastevent and nothing
\* else, any other state deletes the row; the write is made between the lookup
\* and the one commit of the transaction that read the row.
C11_ApplyNewer ==
  LET i == msg[1].id
      old == pre.store[i]
  IN  (Done /\ old # <<>> /\ old[1].lastevent # NullTime
         /\ msg[1].time > old[1].lastevent /\ Failures = {})
      => /\ result = "returned"
         /\ IF msg[1].state \in LiveStates
            THEN /\ store[i] # <<>>
                 /\ store[i][1].state = msg[1].state
                 /\ store[i][1].lastevent = msg[1].time
                 /\ store[i][1].id = old[1].id
                 /\ store[i][1].workertype = old[1].workertype
            ELSE store[i] = <<>>
         /\ [k \in DOMAIN calls |-> calls[k].op] =
              << "logCloudWatchEvent", "beginTransaction", "listInstances",
                 IF msg[1].state \in LiveStates THEN "updateInstanceState"
                 ELSE "removeInstance",
                 "commitTransaction" >>
         /\ txn = "committed"

C11_Witness ==
  /\ Done
  /\ Failures = {}
  /\ pre.store[msg[1].id] # <<>>
  /\ pre.store[msg[1].id][1].state = "pending"
  /\ msg[1].state = "running"
  /\ msg[1].time > pre.store[msg[1].id][1].lastevent
  /\ store[msg[1].id] # <<>>
  /\ store[msg[1].id][1].state = "running"

\* the part of a key name between its first and its second separator
SecondField(key) ==
  IF ~HasSeparator(key) THEN <<>>
  ELSE LET rest == SubSeq(key, Len(PrefixOf(key)) + 2, Len(key))
       IN  PrefixOf(rest)

\* C12: with no row, a pending or running notification generated at T1, a
\* successful describeInstances and a key name of this provisioner with a
\* worker type, the row held after handle returns has the notification's state,
\* lastevent T1 and the worker type of the key name.
C12_FirstObservation ==
  LET i == msg[1].id
  IN  (Done /\ result = "returned" /\ pre.store[i] = <<>>
         /\ msg[1].state \in LiveStates /\ instance # <<>>
         /\ SecondField(instance[1].KeyName) # <<>>
         /\ PrefixOf(instance[1].KeyName) = thisProvisionerId)
      => /\ store[i] =
              << [ id |-> i, state |-> msg[1].state, lastevent |-> msg[1].time,
                   workertype |-> SecondField(instance[1].KeyName) ] >>
         /\ Succeeded("upsertInstance")

C12_Witness ==
  /\ Done
  /\ result = "returned"
  /\ pre.store[msg[1].id] = <<>>
  /\ msg[1].state = "pending"
  /\ instance # <<>>
  /\ instance[1].KeyName = <<"p", ":", "w", ":", "x">>
  /\ store[msg[1].id] # <<>>
  /\ store[msg[1].id][1].lastevent = msg[1].time

\* the failed calls of this call, the audit write aside
FailuresBut(ops) == {k \in Failures : calls[k].op \notin ops}

\* C14: when listInstances fails, handle rolls back and returns, and calls
\* neither describeInstances, tagResources, upsertInstance, updateInstanceState
\* nor removeInstance; stated for the calls in which nothing else fails.
C14_LookupFailureStops ==
  (Done /\ Failed("listInstances") /\ FailuresBut({"listInstances"}) = {})
  => /\ Succeeded("rollbackTransaction")
     /\ result = "returned"
     /\ \A op \in { "describeInstances", "tagResources", "upsertInstance",
                    "updateInstanceState", "removeInstance" } : ~Called(op)

\* C15: when the write of a newer notification (updateInstanceState or
\* removeInstance) or the commit after it is the call that fails, the next and
\* last call is a rollback, handle raises the error of the failed call, the
\* rows are those held before the call and the transaction is rolled back.
C15_WriteFailureRollsBack ==
  \A k \in DOMAIN calls :
    (Done /\ pre.store[msg[1].id] # <<>>
       /\ FailuresBut({"logCloudWatchEvent"}) = {k}
       /\ \/ k = 4 /\ calls[k].op \in {"updateInstanceState", "removeInstance"}
          \/ k = 5 /\ calls[k].op = "commitTransaction")
    => /\ Len(calls) = k + 1
       /\ calls[k + 1] = [op |-> "rollbackTransaction", ok |-> TRUE]
       /\ result = "raised"
       /\ err = calls[k].op
       /\ store = pre.store
       /\ txn = "rolledback"
       /\ txnWrite = <<>>

C15_Witness ==
  /\ Done
  /\ pre.store[msg[1].id] # <<>>
  /\ Len(calls) = 6
  /\ calls[4] = [op |-> "removeInstance", ok |-> TRUE]
  /\ calls[5] = [op |-> "commitTransaction", ok |-> FALSE]
  /\ calls[6] = [op |-> "rollbackTransaction", ok |-> TRUE]
  /\ result = "raised"
  /\ store = pre.store

\* C16: whether logCloudWatchEvent succeeds or fails, when no other call fails
\* handle returns, the row it leaves and its describeInstances and tagResources
\* calls are fixed by the row found, the notification and the instance alone;
\* a failed audit write is reported once.
C16_AuditNonFatal ==
  LET i == msg[1].id
  IN  (Done /\ FailuresBut({"logCloudWatchEvent"}) = {})
      => /\ result = "returned"
         /\ store[i] = HandleOk(pre.store[i], msg[1], ec2Key[i])
         /\ Called("describeInstances")
              = (pre.store[i] = <<>> /\ msg[1].state \in LiveStates)
         /\ Called("tagResources")
              = (/\ instance # <<>>
                 /\ SecondField(instance[1].KeyName) # <<>>
                 /\ "Owner" \notin instance[1].Tags)
         /\ reports = IF Failed("logCloudWatchEvent")
                      THEN <<"logCloudWatchEvent">> ELSE <<>>

C16_Witness ==
  /\ Done
  /\ Failures = {1}
  /\ calls[1].op = "logCloudWatchEvent"
  /\ result = "returned"
  /\ Succeeded("tagResources")
  /\ store[msg[1].id] # pre.store[msg[1].id]

\* C17: whenever handle is about to call or is calling describeInstances or
\* tagResources, its transaction is committed or rolled back and holds no write.
C17_NoLockAcrossExternalCalls ==
  pc \in {"describeInstances", "tagResources"}
  => txn \in {"committed", "rolledback"} /\ txnWrite = <<>>

C17_Witness ==
  /\ pc = "tagResources"
  /\ txn = "committed"
  /\ Succeeded("describeInstances")

\* C18: with no row, a pending or running notification and a described
\* instance of this provisioner with a worker type, the row is upserted
\* whether tagResources succeeds or fails.
C18_TaggingBestEffort ==
  LET i == msg[1].id
  IN  (Done /\ pre.store[i] = <<>> /\ msg[1].state \in LiveStates
         /\ instance # <<>>
         /\ SecondField(instance[1].KeyName) # <<>>
         /\ PrefixOf(instance[1].KeyName) = thisProvisionerId
         /\ FailuresBut({"tagResources"}) = {})
      => /\ Succeeded("upsertInstance")
         /\ store[i] # <<>>

\* C20: a row without a lastevent is left as it is by every notification:
\* handle makes no write, commits once, counts one out-of-order delivery and
\* returns; stated for the calls in which nothing but the lookup may fail.
C20_NullLastEvent ==
  LET i == msg[1].id
  IN  (Done /\ pre.store[i] # <<>> /\ pre.store[i][1].lastevent = NullTime
         /\ FailuresBut({"listInstances"}) = {})
      => /\ store = pre.store
         /\ \A op \in {"updateInstanceState", "removeInstance", "upsertInstance"} :
              ~Called(op)
         /\ Cardinality(CallsOf("commitTransaction")) = 1
         /\ CountedSince(OutOfOrderCounters, 1)
         /\ result = "returned"

\* the same with the lookup succeeding as well
NullLastEventWhenLookupSucceeds ==
  LET i == msg[1].id
  IN  (Done /\ pre.store[i] # <<>> /\ pre.store[i][1].lastevent = NullTime
         /\ Failures = {})
      => /\ store = pre.store
         /\ [k \in DOMAIN calls |-> calls[k].op] =
              << "logCloudWatchEvent", "beginTransaction", "listInstances",
                 "commitTransaction" >>
         /\ CountedSince(OutOfOrderCounters, 1)
         /\ result = "returned"

----------------------------------------------------------------------------
(* Handler executions side by side: what they do to the row and its lock.
   The audit write, the counters and the reports touch neither and are left
   to the specifications above. *)

\* sequential: true, in the options of the primary QueueListener
sequential_Off == FALSE
sequential == TRUE

\* the variables of the one-at-a-time handler, which stay as they are here
hvars ==
  << events, pc, msg, dbResponse, instance, txn, txnWrite, caught, result, err,
     counts, delays, reports, calls, pre, started, delivered, nondropped, applied,
     clean >>

ExecId(p) == execs[p].msg[1].id
Unlock(p) == [i \in Instances |-> IF rowLock[i] = <<p>> THEN <<>> ELSE rowLock[i]]
EndExec(p) == execs' = [execs EXCEPT ![p] = IdleExec]
GoTo(p, to) == execs' = [execs EXCEPT ![p].pc = to]

\* the listener starts the handler on a message; with sequential it waits for
\* the handler of the message before; then lines 107-126
CStart(p, n) ==
  /\ execs[p].pc = "idle"
  /\ cstarted < MaxMsgs
  /\ sequential => \A q \in Procs : execs[q].pc = "idle"
  /\ cstarted' = cstarted + 1
  /\ execs' = [execs EXCEPT ![p] = [IdleExec EXCEPT !.pc = "listInstances", !.msg = <<n>>]]
  /\ UNCHANGED <<store, ec2Key, rowLock, hvars, qvars>>

\* lines 128-138: the lookup waits for the lock of the row, if there is one,
\* and takes it; a failed lookup rolls back and goes on without a row
CListInstances(p) ==
  /\ execs[p].pc = "listInstances"
  /\ \E ok \in BOOLEAN :
       LET i == ExecId(p)
       IN  IF ok
           THEN /\ store[i] # <<>> => rowLock[i] = <<>>
                /\ rowLock' = IF store[i] # <<>> THEN [rowLock EXCEPT ![i] = <<p>>]
                                                  ELSE rowLock
                /\ execs' = [execs EXCEPT ![p].dbResponse = store[i],
                                          ![p].pc = IF store[i] # <<>> THEN "write"
                                                                       ELSE "commit"]
           ELSE /\ rowLock' = Unlock(p)
                /\ GoTo(p, "commit")
  /\ UNCHANGED <<store, ec2Key, cstarted, hvars, qvars>>

\* lines 143-145 and the branch at 147, 200, 272
CCommit(p) ==
  /\ execs[p].pc = "commit"
  /\ \E ok \in BOOLEAN :
       IF ok
       THEN GoTo(p, IF IsLive(execs[p].msg[1].state) THEN "describe" ELSE "remove")
       ELSE EndExec(p)
  /\ rowLock' = Unlock(p)
  /\ UNCHANGED <<store, ec2Key, cstarted, hvars, qvars>>

\* lines 172-199: the write and the commit, or the rollback, or the commit of
\* the stale branch; the transaction ends and with it the lock
CWrite(p) ==
  /\ execs[p].pc = "write"
  /\ LET i == ExecId(p)
         n == execs[p].msg[1]
         row == execs[p].dbResponse
     IN  \E ok \in BOOLEAN :
           store' = IF ok /\ IsNewer(row[1], n.time)
                    THEN [store EXCEPT ![i] =
                            IF IsLive(n.state)
                            THEN UpdateInstanceStateRow(row, n.state, n.time)
                            ELSE RemoveInstanceRow(row)]
                    ELSE store
  /\ rowLock' = Unlock(p)
  /\ EndExec(p)
  /\ UNCHANGED <<ec2Key, cstarted, hvars, qvars>>

\* lines 207-250: describeInstances, the split of the key name, the tagging
CDescribe(p) ==
  /\ execs[p].pc = "describe"
  /\ \E ok \in BOOLEAN, tags \in TagSets, tagged \in BOOLEAN :
       LET inst == [KeyName |-> ec2Key[ExecId(p)], Tags |-> tags]
       IN  IF ok /\ (NeedsTag(inst) => tagged) /\ IsOwned(inst)
           THEN execs' = [execs EXCEPT ![p].instance = <<inst>>, ![p].pc = "upsert"]
           ELSE EndExec(p)
  /\ UNCHANGED <<store, ec2Key, rowLock, cstarted, hvars, qvars>>

\* lines 264-267: the upsert, outside the transaction; a write waits for the
\* lock of the row while another execution holds it
CUpsert(p) ==
  /\ execs[p].pc = "upsert"
  /\ LET i == ExecId(p)
     IN  /\ rowLock[i] = <<>>
         /\ \E ok \in BOOLEAN :
              store' = IF ok
                       THEN [store EXCEPT ![i] =
                               UpsertInstanceRow(store[i],
                                 UpsertOpts(execs[p].msg[1], execs[p].instance[1]))]
                       ELSE store
  /\ EndExec(p)
  /\ UNCHANGED <<ec2Key, rowLock, cstarted, hvars, qvars>>

\* lines 272-282: the unconditional delete, outside the transaction
CRemove(p) ==
  /\ execs[p].pc = "remove"
  /\ LET i == ExecId(p)
     IN  /\ rowLock[i] = <<>>
         /\ \E ok \in BOOLEAN :
              store' = IF ok THEN [store EXCEPT ![i] = RemoveInstanceRow(store[i])]
                             ELSE store
  /\ EndExec(p)
  /\ UNCHANGED <<ec2Key, rowLock, cstarted, hvars, qvars>>

NextConc ==
  \/ \E p \in Procs, n \in Notifications : CStart(p, n)
  \/ \E p \in Procs : CListInstances(p)
  \/ \E p \in Procs : CCommit(p)
  \/ \E p \in Procs : CWrite(p)
  \/ \E p \in Procs : CDescribe(p)
  \/ \E p \in Procs : CUpsert(p)
  \/ \E p \in Procs : CRemove(p)

SpecConc == Init /\ [][NextConc]_vars

----------------------------------------------------------------------------
(* C13 *)

Alerted(n) == \E k \in DOMAIN alerts : alerts[k].n = n
\* the notifications still with the transport or a handler, and those done with
Pending == {m.n : m \in queue} \cup {inflight[k].n : k \in DOMAIN inflight} \cup deadq
Settled == acked \cup {n \in Notifications : Alerted(n)}
\* a step of the dead-letter handler: a message leaves the dead-letter queue
DeadStep == deadq' # deadq /\ deadq' \subseteq deadq

\* C13: under fair redelivery every notification on the primary queue is in
\* the end handled without raising, or, once it has been received MaxReceive
\* times and raised each time, handed to the dead-letter handler (no
\* notification is lost or made up, one that is settled stays settled, and in
\* the end none is pending); a step of
\* that handler adds exactly one alert, of severity info, about the message
\* it took, and leaves the store, the transaction and the counters alone;
\* nothing else adds an alert, and the dead-letter handler has no failing
\* outcome: a message that left the dead-letter queue never comes back.
C13_ExhaustedRetries ==
  /\ <>[](Pending = {})
  /\ [][Pending' \cup Settled' = Pending \cup Settled /\ Settled \subseteq Settled']_vars
  /\ [][DeadStep =>
          /\ Len(alerts') = Len(alerts) + 1
          /\ SubSeq(alerts', 1, Len(alerts)) = alerts
          /\ alerts'[Len(alerts')].level = "info"
          /\ deadq \ deadq' = {alerts'[Len(alerts')].n}
          /\ UNCHANGED <<store, txn, txnWrite, counts, reports, queue, inflight>>]_vars
  /\ [][alerts' # alerts => DeadStep]_vars
  /\ [][\A n \in Notifications : Alerted(n) => n \notin deadq']_vars
  /\ [][\A n \in deadq' \ deadq :
          inflight # <<>> /\ inflight[1].n = n /\ inflight[1].rc = MaxReceive
          /\ result = "raised"]_vars

\* a notification received MaxReceive times, raised each time, and reported by
\* the dead-letter handler while the store holds a row written for another
\* notification
C13_Witness ==
  /\ alerts # <<>>
  /\ counts["handler-errors"] >= MaxReceive
  /\ acked # {}
  /\ \E i \in Instances : store[i] # <<>>

----------------------------------------------------------------------------
(* C19 *)

\* p has read the row (or found none) and has not yet written or given up
InWindow(p) == execs[p].pc \in {"commit", "write", "describe", "upsert", "remove"}

\* C19: at no time are two handler executions both between their lookup and
\* their write (update, delete, upsert) of the row of the same instance;
\* the upsert and the unconditional delete, after the commit, included.
C19_AtMostOneInProgress ==
  \A p, q \in Procs :
    (p # q /\ InWindow(p) /\ InWindow(q)) => ExecId(p) # ExecId(q)

\* an execution about to upsert or delete with its transaction closed and no
\* lock held, after an earlier execution wrote the row of the same instance
C19_Witness ==
  \E p \in Procs :
    /\ execs[p].pc \in {"upsert", "remove"}
    /\ rowLock[ExecId(p)] = <<>>
    /\ store[ExecId(p)] # <<>>
    /\ cstarted >= 2
====
